---- MODULE Spec2Model ----
(***************************************************************************)
(* RustyFungus: the Befunge execution engine of src/src/program.rs with    *)
(* the token mapping of src/src/token.rs and the run loop of               *)
(* src/src/main.rs.                                                        *)
(*                                                                         *)
(* Characters are modelled by their code points, strings by sequences of   *)
(* code points, a Token by a record [k |-> variant, v |-> payload].        *)
(* A Rust panic ends the process: it is recorded in the variable fatal,    *)
(* with the fields left as the unwinding step left them.                   *)
(***************************************************************************)
EXTENDS Integers, Sequences, FiniteSets, TLC

VARIABLES
    xptr, yptr,        \* Program.xptr, Program.yptr
    direction,         \* Program.direction
    grid,              \* Program.grid : Vec<Vec<Token>>
    stack,             \* Program.stack : Vec<i32>
    is_running,        \* Program.is_running
    string_mode,       \* Program.string_mode
    width,             \* Program.width
    last_output,       \* Program.last_output (sequence of code points)
    fatal,             \* "" while the process lives, else the panic that ended it
    overflow_checks,   \* build profile: TRUE = arithmetic overflow panics, FALSE = wraps
    steps,             \* number of step() calls made so far
    prev,              \* history: the state the last step() started from
    last_put,          \* history: the operands of the last completed Put
    prev2,             \* history: the state the step before the last started from
    string_run,        \* history: the last stretch of string mode
    buffered_line,     \* StdinInputReader.buffered_line (sequence of code points)
    buffered_index,    \* StdinInputReader.buffered_index
    stdin,             \* what io::stdin() has yet to deliver, one read_line each
    typed,             \* history: everything stdin held at the start
    returned           \* history: the values read_char has returned so far

vars == <<xptr, yptr, direction, grid, stack, is_running, string_mode, width,
          last_output, fatal, overflow_checks, steps, prev, last_put,
          prev2, string_run, buffered_line, buffered_index, stdin, typed,
          returned>>

\* the fields of the StdinInputReader and its histories
reader_vars == <<buffered_line, buffered_index, stdin, typed, returned>>

-----------------------------------------------------------------------------
(* Bounds of the model *)

\* the run loop is followed for at most MaxSteps calls of step()
MaxSteps == 14

-----------------------------------------------------------------------------
(* i32.  TLC's integers are themselves 32 bits wide and refuse to overflow, *)
(* so the i32 operations are computed through tests that stay in range.    *)

I32_MAX == 2147483647
I32_MIN == -I32_MAX - 1

Abs(n) == IF n < 0 THEN -n ELSE n

\* i32::wrapping_add: a + b modulo 2^32
wrapping_add(a, b) ==
    IF a > 0 /\ b > I32_MAX - a THEN (a + I32_MIN) + (b + I32_MIN)
    ELSE IF a < 0 /\ b < I32_MIN - a THEN (a - I32_MIN) + (b - I32_MIN)
    ELSE a + b

add_overflows(a, b) ==
    (a > 0 /\ b > I32_MAX - a) \/ (a < 0 /\ b < I32_MIN - a)

\* i32::wrapping_sub: b - a modulo 2^32
wrapping_sub(b, a) ==
    IF a < 0 /\ b > I32_MAX + a THEN (b + I32_MIN) - (a - I32_MIN)
    ELSE IF a > 0 /\ b < I32_MIN + a THEN (b - I32_MIN) - (a + I32_MIN)
    ELSE b - a

sub_overflows(b, a) ==
    (a < 0 /\ b > I32_MAX + a) \/ (a > 0 /\ b < I32_MIN + a)

\* Rust's `/` on i32 truncates toward zero (a # 0, not i32::MIN / -1)
trunc_div(b, a) ==
    IF a = I32_MIN THEN (IF b = I32_MIN THEN 1 ELSE 0)
    ELSE LET q == b \div a
         IN  IF (b % Abs(a)) # 0 /\ ((b < 0) # (a < 0)) THEN q + 1 ELSE q

\* Rust's `%` on i32: the remainder of the truncating division
trunc_rem(b, a) == b - a * trunc_div(b, a)

\* x * 2^8 and x * 2^16 modulo 2^32, as i32
shl8(x) ==
    LET y == x % 16777216
    IN  IF y >= 8388608 THEN (y - 16777216) * 256 ELSE y * 256

shl16(x) ==
    LET y == x % 65536
    IN  IF y >= 32768 THEN (y - 65536) * 65536 ELSE y * 65536

\* i32::wrapping_mul: a * b modulo 2^32, from the 16-bit halves of a and b
wrapping_mul(a, b) ==
    LET al == a % 65536
        ah == a \div 65536
        bl == b % 65536
        bh == b \div 65536
        low == wrapping_add((al % 256) * bl, shl8((al \div 256) * bl))
        mid == ((ah * bl) % 65536) + ((al * bh) % 65536)
    IN  wrapping_add(low, shl16(mid))

mul_overflows(a, b) ==
    /\ a # 0
    /\ b # 0
    /\ IF a = -1 THEN b = I32_MIN
       ELSE trunc_div(wrapping_mul(a, b), a) # b

-----------------------------------------------------------------------------
(* Token (src/src/token.rs, with the ReadInt and ReadChar variants that    *)
(* src/src/program.rs dispatches on)                                       *)

Tok(k)  == [k |-> k, v |-> 0]
TInt(n) == [k |-> "Int", v |-> n]
TChar(c) == [k |-> "Char", v |-> c]
None    == [k |-> "None", v |-> 0]

\* CHAR_TOKEN_MAP, as <<code point, variant>> pairs
CHAR_TOKEN_MAP ==
    << <<43, "Add">>,          <<45, "Subtract">>,   <<42, "Multiply">>,
       <<47, "Divide">>,       <<37, "Modulo">>,     <<33, "Not">>,
       <<96, "Greater">>,      <<62, "Right">>,      <<60, "Left">>,
       <<94, "Up">>,           <<118, "Down">>,      <<63, "Random">>,
       <<95, "HorizontalIf">>, <<124, "VerticalIf">>, <<34, "StringMode">>,
       <<58, "Duplicate">>,    <<92, "Swap">>,       <<36, "Discard">>,
       <<46, "PrintInt">>,     <<44, "PrintChar">>,  <<35, "Bridge">>,
       <<103, "Get">>,         <<112, "Put">>,       <<64, "Quit">>,
       <<32, "Noop">> >>

\* BiMap::get_by_left: the token of a character, None when it has none
get_by_left(c) ==
    IF \E i \in 1..Len(CHAR_TOKEN_MAP) : CHAR_TOKEN_MAP[i][1] = c
    THEN Tok(CHAR_TOKEN_MAP[CHOOSE i \in 1..Len(CHAR_TOKEN_MAP) : CHAR_TOKEN_MAP[i][1] = c][2])
    ELSE None

\* BiMap::get_by_right: the character of a token, -1 for Option::None
get_by_right(token) ==
    IF \E i \in 1..Len(CHAR_TOKEN_MAP) : CHAR_TOKEN_MAP[i][2] = token.k
    THEN CHAR_TOKEN_MAP[CHOOSE i \in 1..Len(CHAR_TOKEN_MAP) : CHAR_TOKEN_MAP[i][2] = token.k][1]
    ELSE -1

\* token_to_char; -1 when the unwrap() of get_by_right panics
token_to_char(token) ==
    CASE token.k = "Int"  -> (token.v + 48) % 256
      [] token.k = "Char" -> token.v
      [] OTHER            -> get_by_right(token)

\* char_to_token
char_to_token(character) ==
    IF character >= 48 /\ character <= 57
    THEN TInt(character - 48)
    ELSE IF get_by_left(character) # None
         THEN get_by_left(character)
         ELSE TChar(character)

\* lines_to_token_matrix: program text (rows of code points) to the token matrix
lines_to_token_matrix(lines) ==
    [y \in 1..Len(lines) |-> [x \in 1..Len(lines[y]) |-> char_to_token(lines[y][x])]]

-----------------------------------------------------------------------------
(* free functions of src/src/program.rs *)

\* char::from_u32 accepts a scalar value: below 0x110000 and no surrogate
ValidChar(u) == u >= 0 /\ u < 1114112 /\ ~(u >= 55296 /\ u <= 57343)

\* i32_to_char through char::from_u32_unchecked: any non-negative value passes
i32_to_char_unchecked(value) ==
    IF value >= 0 THEN value ELSE -1

\* i32_to_char; -1 when the unwrap() of char::from_u32 panics.  `value as u32`
\* turns a negative value into one of at least 2^31, which is no scalar value
i32_to_char(value) ==
    IF value >= 0 /\ ValidChar(value) THEN value ELSE -1

\* increment_wrap wrapping one cell too late
increment_wrap_late(value, max_value) ==
    IF value = max_value THEN 0 ELSE value + 1

increment_wrap(value, max_value) ==
    IF value = max_value - 1 THEN 0 ELSE value + 1

\* decrement_wrap landing one cell past the last
decrement_wrap_past(value, max_value) ==
    IF value = 0 THEN max_value ELSE value - 1

decrement_wrap(value, max_value) ==
    IF value = 0 THEN max_value - 1 ELSE value - 1

\* the decimal digits of n >= 0
RECURSIVE Digits(_)
Digits(n) ==
    IF n < 10 THEN <<48 + n>> ELSE Append(Digits(n \div 10), 48 + (n % 10))

\* the decimal digits of the absolute value of n < 0
RECURSIVE NegDigits(_)
NegDigits(n) ==
    IF n > -10 THEN <<48 - n>>
    ELSE Append(NegDigits(trunc_div(n, 10)), 48 - trunc_rem(n, 10))

\* format!("{}", n) for an i32
format_i32(n) == IF n < 0 THEN <<45>> \o NegDigits(n) ELSE Digits(n)

-----------------------------------------------------------------------------
(* Program (src/src/program.rs).  The methods are operators on the record  *)
(* p of the Program's fields; p.ret carries a method's return value,       *)
(* p.reads counts the calls made to the input reader in the current step   *)
(* (p.input is the value it handed over) and p.fatal names the panic that  *)
(* stopped the step, if any.                                               *)

Panic(p, why) == [p EXCEPT !.fatal = why]

stack_pop(p) ==
    IF Len(p.stack) = 0
    THEN [p EXCEPT !.ret = 0]
    ELSE [p EXCEPT !.ret = p.stack[Len(p.stack)],
                   !.stack = SubSeq(p.stack, 1, Len(p.stack) - 1)]

stack_push(p, value) == [p EXCEPT !.stack = Append(p.stack, value)]

stack_peek(p) ==
    IF Len(p.stack) = 0 THEN 0 ELSE p.stack[Len(p.stack)]

\* the result r of an i32 `+`, `-` or `*`: pushed as it is when it fits; when it
\* overflows the build decides: a panic (overflow checks on) or the wrapped value
push_arith(p, r) ==
    IF ~r.overflow THEN stack_push(p, r.value)
    ELSE IF p.overflow_checks THEN Panic(p, "arithmetic overflow")
    ELSE stack_push(p, r.value)

\* `b / a` and `b % a` on i32: both panic on a zero divisor and on i32::MIN by -1
div_i32(p, b, a) ==
    IF a = 0 THEN Panic(p, "attempt to divide by zero")
    ELSE IF b = I32_MIN /\ a = -1 THEN Panic(p, "attempt to divide with overflow")
    ELSE stack_push(p, trunc_div(b, a))

rem_i32(p, b, a) ==
    IF a = 0 THEN Panic(p, "attempt to calculate the remainder with a divisor of zero")
    ELSE IF b = I32_MIN /\ a = -1
         THEN Panic(p, "attempt to calculate the remainder with overflow")
    ELSE stack_push(p, trunc_rem(b, a))

\* the closures handed to binary_stack_op_push, a popped first and b second
\* (the arithmetic ones give the wrapped result and whether it overflowed)
op_add(a, b)      == [value |-> wrapping_add(a, b), overflow |-> add_overflows(a, b)]
\* Subtract with its operands the other way round
op_subtract_swapped(a, b) ==
    [value |-> wrapping_sub(a, b), overflow |-> sub_overflows(a, b)]
op_subtract(a, b) == [value |-> wrapping_sub(b, a), overflow |-> sub_overflows(b, a)]
op_multiply(a, b) == [value |-> wrapping_mul(a, b), overflow |-> mul_overflows(a, b)]
op_greater(a, b)  == IF b > a THEN 1 ELSE 0

\* binary_stack_op_push with one of the closures above, named by its token
binary_stack_op_push(p, op) ==
    LET p1 == stack_pop(p)
        a  == p1.ret
        p2 == stack_pop(p1)
        b  == p2.ret
    IN  CASE op = "Add"      -> push_arith(p2, op_add(a, b))
          [] op = "Subtract" -> push_arith(p2, op_subtract(a, b))
          [] op = "Multiply" -> push_arith(p2, op_multiply(a, b))
          [] op = "Greater"  -> stack_push(p2, op_greater(a, b))
          [] op = "Modulo"   -> rem_i32(p2, b, a)

height(p) == Len(p.grid)

\* InputReader::read_int / read_char: the reader hands over the value `input`
read_input(p, input) ==
    [p EXCEPT !.ret = input, !.reads = p.reads + 1, !.input = input]

\* rows whose length has been raised to n by pushing Noop
pad_row(row, n) ==
    [i \in 1..(IF Len(row) > n THEN Len(row) ELSE n) |->
        IF i <= Len(row) THEN row[i] ELSE Tok("Noop")]

\* set_token that starts the row afresh before it writes
set_token_clearing(p, x, y, token) ==
    IF x < 0 \/ y < 0
    THEN Panic(p, "Tried setting a negative value on the grid")
    ELSE LET w  == IF x > p.width THEN x ELSE p.width
             g1 == [i \in 1..(IF Len(p.grid) > y + 1 THEN Len(p.grid) ELSE y + 1) |->
                       IF i <= Len(p.grid) THEN p.grid[i] ELSE << >>]
             r1 == pad_row(<< >>, IF Len(g1[y + 1]) > x + 1 THEN Len(g1[y + 1]) ELSE x + 1)
             g2 == [g1 EXCEPT ![y + 1] = [r1 EXCEPT ![x + 1] = token]]
         IN  [p EXCEPT !.width = w, !.grid = g2]

\* set_token (x, y zero-based)
set_token(p, x, y, token) ==
    IF x < 0 \/ y < 0
    THEN Panic(p, "Tried setting a negative value on the grid")
    ELSE LET w  == IF x > p.width THEN x ELSE p.width
             \* for _ in self.grid.len()..=y { self.grid.push(vec![]) }
             g1 == [i \in 1..(IF Len(p.grid) > y + 1 THEN Len(p.grid) ELSE y + 1) |->
                       IF i <= Len(p.grid) THEN p.grid[i] ELSE << >>]
             \* for _ in self.grid[y].len()..=x { self.grid[y].push(Token::Noop) }
             r1 == pad_row(g1[y + 1], x + 1)
             g2 == [g1 EXCEPT ![y + 1] = [r1 EXCEPT ![x + 1] = token]]
         IN  [p EXCEPT !.width = w, !.grid = g2]

\* get_token (x, y zero-based); None for Option::None
get_token(p, x, y) ==
    IF x < 0 \/ y < 0 \/ x >= p.width \/ y >= height(p)
    THEN None
    ELSE IF x < Len(p.grid[y + 1]) THEN p.grid[y + 1][x + 1] ELSE Tok("Noop")

move_program_pointer(p) ==
    IF p.yptr < 0 \/ p.yptr >= Len(p.grid)
    THEN Panic(p, "index out of bounds")
    ELSE LET max_y == Len(p.grid)
             max_x == Len(p.grid[p.yptr + 1])
         IN  CASE p.direction = "Up"    -> [p EXCEPT !.yptr = decrement_wrap(p.yptr, max_y)]
               [] p.direction = "Down"  -> [p EXCEPT !.yptr = increment_wrap(p.yptr, max_y)]
               [] p.direction = "Left"  -> [p EXCEPT !.xptr = decrement_wrap(p.xptr, max_x)]
               [] p.direction = "Right" -> [p EXCEPT !.xptr = increment_wrap(p.xptr, max_x)]

\* Divide without the detour to the input reader
divide_trapping(p, input) ==
    LET p1 == stack_pop(p)
        a  == p1.ret
        p2 == stack_pop(p1)
        b  == p2.ret
    IN  div_i32(p2, b, a)

\* the Token::Divide arm of perform_action
divide(p, input) ==
    LET p1 == stack_pop(p)
        a  == p1.ret
        p2 == stack_pop(p1)
        b  == p2.ret
    IN  IF a = 0
        THEN LET p3 == read_input(p2, input) IN stack_push(p3, p3.ret)
        ELSE div_i32(p2, b, a)

\* PrintInt that stops the program when it hits the bottom of the stack
print_int_hit_bottom(p) ==
    IF Len(p.stack) = 0
    THEN [p EXCEPT !.is_running = FALSE]
    ELSE LET p1 == stack_pop(p)
         IN  [p1 EXCEPT !.last_output = format_i32(p1.ret) \o <<32>>]

\* the Token::PrintInt arm of perform_action: format!("{} ", self.stack_pop())
print_int(p) ==
    LET p1 == stack_pop(p)
    IN  [p1 EXCEPT !.last_output = format_i32(p1.ret) \o <<32>>]

\* Bridge that leaves the skipping to nobody
bridge_idle(p) == p

\* the Token::Bridge arm of perform_action
bridge(p) == move_program_pointer(p)

\* ReadInt that asks the reader again and keeps the second answer
read_int_twice(p, input) ==
    LET p1 == read_input(read_input(p, input), input) IN stack_push(p1, p1.ret)

\* the Token::ReadInt arm of perform_action
read_int(p, input) ==
    LET p1 == read_input(p, input) IN stack_push(p1, p1.ret)

\* the Token::ReadChar arm of perform_action
read_char(p, input) ==
    LET p1 == read_input(p, input) IN stack_push(p1, p1.ret)

\* HorizontalIf with the branches exchanged
horizontal_if_inverted(p) ==
    LET p1 == stack_pop(p)
    IN  [p1 EXCEPT !.direction = IF p1.ret = 0 THEN "Left" ELSE "Right"]

\* the Token::HorizontalIf arm of perform_action
horizontal_if(p) ==
    LET p1 == stack_pop(p)
    IN  [p1 EXCEPT !.direction = IF p1.ret = 0 THEN "Right" ELSE "Left"]

\* the Token::VerticalIf arm of perform_action
vertical_if(p) ==
    LET p1 == stack_pop(p)
    IN  [p1 EXCEPT !.direction = IF p1.ret = 0 THEN "Down" ELSE "Up"]

\* Swap that leaves a stack of fewer than two values alone
swap_short(p) ==
    IF Len(p.stack) < 2 THEN p
    ELSE LET p1 == stack_pop(p)
             top == p1.ret
             p2 == stack_pop(p1)
             bottom == p2.ret
         IN  stack_push(stack_push(p2, top), bottom)

\* the Token::Swap arm of perform_action
swap(p) ==
    LET p1 == stack_pop(p)
        top == p1.ret
        p2 == stack_pop(p1)
        bottom == p2.ret
    IN  stack_push(stack_push(p2, top), bottom)

\* Get that pops x before y
get_swapped(p) ==
    LET p1 == stack_pop(p)
        x  == p1.ret
        p2 == stack_pop(p1)
        y  == p2.ret
        token == get_token(p2, x, y)
    IN  IF token = None THEN stack_push(p2, 0)
        ELSE IF token_to_char(token) = -1
        THEN Panic(p2, "called Option::unwrap() on a None value: get_by_right")
        ELSE stack_push(p2, token_to_char(token))

\* the Token::Get arm of perform_action
get(p) ==
    LET p1 == stack_pop(p)
        y  == p1.ret
        p2 == stack_pop(p1)
        x  == p2.ret
        token == get_token(p2, x, y)
    IN  IF token = None THEN stack_push(p2, 0)
        ELSE IF token_to_char(token) = -1
        THEN Panic(p2, "called Option::unwrap() on a None value: get_by_right")
        ELSE stack_push(p2, token_to_char(token))

perform_action(p, action, input, random) ==
    CASE action.k \in {"Add", "Subtract", "Multiply", "Modulo", "Greater"} ->
            binary_stack_op_push(p, action.k)
      [] action.k = "Divide" ->
            divide(p, input)
      [] action.k = "Not" ->
            LET p1 == stack_pop(p)
            IN  stack_push(p1, IF p1.ret = 0 THEN 1 ELSE 0)
      [] action.k \in {"Right", "Left", "Up", "Down"} ->
            [p EXCEPT !.direction = action.k]
      [] action.k = "Random" ->
            [p EXCEPT !.direction = random]
      [] action.k = "HorizontalIf" ->
            horizontal_if(p)
      [] action.k = "VerticalIf" ->
            vertical_if(p)
      [] action.k = "StringMode" ->
            [p EXCEPT !.string_mode = TRUE]
      [] action.k = "Duplicate" ->
            stack_push(p, stack_peek(p))
      [] action.k = "Swap" ->
            swap(p)
      [] action.k = "Discard" ->
            stack_pop(p)
      [] action.k = "PrintInt" ->
            print_int(p)
      [] action.k = "PrintChar" ->
            LET p1 == stack_pop(p)
                c  == i32_to_char(p1.ret)
            IN  IF c = -1
                THEN Panic(p1, "called Option::unwrap() on a None value: char::from_u32")
                ELSE [p1 EXCEPT !.last_output = <<c>>]
      [] action.k = "Bridge" ->
            bridge(p)
      [] action.k = "Get" ->
            get(p)
      [] action.k = "Put" ->
            LET p1 == stack_pop(p)
                y  == p1.ret
                p2 == stack_pop(p1)
                x  == p2.ret
                p3 == stack_pop(p2)
                v  == p3.ret
                c  == i32_to_char(v)
            IN  IF c = -1
                THEN Panic(p3, "called Option::unwrap() on a None value: char::from_u32")
                ELSE set_token(p3, x, y, char_to_token(c))
      [] action.k = "ReadInt" ->
            read_int(p, input)
      [] action.k = "ReadChar" ->
            read_char(p, input)
      [] action.k = "Quit" ->
            [p EXCEPT !.is_running = FALSE]
      [] action.k = "Int" ->
            stack_push(p, action.v)
      [] action.k \in {"Noop", "Char"} ->
            p

\* string mode that still obeys Quit
perform_string_action_quit(p, action) ==
    CASE action.k = "StringMode" -> [p EXCEPT !.string_mode = FALSE]
      [] action.k = "Quit"       -> [p EXCEPT !.is_running = FALSE]
      [] action.k = "Char"       -> stack_push(p, action.v)
      [] OTHER                   -> stack_push(p, token_to_char(action))

\* string mode that pushes a digit's value instead of its character
perform_string_action_digit(p, action) ==
    CASE action.k = "StringMode" -> [p EXCEPT !.string_mode = FALSE]
      [] action.k = "Char"       -> stack_push(p, action.v)
      [] action.k = "Int"        -> stack_push(p, action.v)
      [] OTHER                   -> stack_push(p, token_to_char(action))

\* string mode that takes the closing quote for part of the string
perform_string_action_quote(p, action) ==
    CASE action.k = "StringMode" ->
            stack_push([p EXCEPT !.string_mode = FALSE], token_to_char(action))
      [] action.k = "Char"       -> stack_push(p, action.v)
      [] OTHER                   -> stack_push(p, token_to_char(action))

perform_string_action(p, action) ==
    CASE action.k = "StringMode" -> [p EXCEPT !.string_mode = FALSE]
      [] action.k = "Char"       -> stack_push(p, action.v)
      [] OTHER ->
            IF token_to_char(action) = -1
            THEN Panic(p, "called Option::unwrap() on a None value: get_by_right")
            ELSE stack_push(p, token_to_char(action))

\* step that does not clear last_output first
step_keeps_output(p, input, random) ==
    LET current_token == get_token(p, p.xptr, p.yptr)
    IN  IF current_token = None
        THEN Panic(p, "called Option::unwrap() on a None value: get_token")
        ELSE LET p1 == IF p.string_mode
                       THEN perform_string_action(p, current_token)
                       ELSE perform_action(p, current_token, input, random)
             IN  IF p1.fatal # "" THEN p1 ELSE move_program_pointer(p1)

\* Program::step; a panic leaves the fields as they were when it struck
step(p, input, random) ==
    LET p0 == [p EXCEPT !.last_output = << >>]
        current_token == get_token(p0, p0.xptr, p0.yptr)
    IN  IF current_token = None
        THEN Panic(p0, "called Option::unwrap() on a None value: get_token")
        ELSE LET p1 == IF p0.string_mode
                       THEN perform_string_action(p0, current_token)
                       ELSE perform_action(p0, current_token, input, random)
             IN  IF p1.fatal # "" THEN p1 ELSE move_program_pointer(p1)

-----------------------------------------------------------------------------
(* The programs run, the input reader and the random source *)

\* values the InputReader may return from read_int / read_char
Inputs == {I32_MIN, -7, -1, 0, 2, 3, 65, I32_MAX}

\* Direction, and what rand::random() may sample
Directions == {"Up", "Down", "Left", "Right"}

\* program texts, one sequence of code points per line
Texts ==
    << << <<53, 53, 43, 46>> >>,                              \* 55+.
       << <<49, 32, 50, 45, 46, 64>> >>,                      \* 1 2-.@
       << <<46, 64>> >>,                                      \* .@
       << <<37, 64>> >>,                                      \* %@
       << <<36, 58, 92, 33, 95>> >>,                          \* $:\!_
       << <<63, 32, 32, 63>>, <<63>>, <<63, 32, 63>> >>,      \* "?  ?" / "?" / "? ?"
       << <<118, 32, 60>>, <<62, 35, 94, 124>> >>,            \* "v <" / ">#^|"
       << << >>, <<62>> >>,                                   \* "" / ">"
       << >>,                                                 \* the empty file
       << <<34, 64, 34, 54, 48, 112>> >>,                     \* "@"60p
       << <<34, 64, 34, 53, 48, 112>> >>,                     \* "@"50p
       << <<34, 98, 34, 49, 48, 112, 49, 48, 103, 44, 64>> >>,    \* "b"10p10g,@
       << <<34, 98, 34, 48, 53, 112, 48, 53, 103, 44, 64>> >>,    \* "b"05p05g,@
       << <<118>>, <<34>>, <<98>>, <<34>>, <<53>>, <<48>>, <<112>>,
          <<53>>, <<48>>, <<103>>, <<46>>, <<64>> >>,         \* v"b"50p50g.@ downwards
       << <<34, 97, 34, 48, 49, 45, 48, 112, 64>> >>,         \* "a"01-0p@
       << <<34, 65, 34, 44, 64>> >>,                          \* "A",@
       << <<118>>, <<53>>, <<48>>, <<54>>, <<112>> >>,        \* v506p downwards
       << <<92, 92, 64>> >>,                                  \* \\@
       << <<49, 92, 92, 64>> >>,                              \* 1\\@
       << <<49, 50, 92, 92, 64>> >>,                          \* 12\\@
       << <<49, 50, 51, 92, 92, 64>> >>,                      \* 123\\@
       << <<34, 49, 64, 34, 44, 44, 64>> >>,                  \* "1@",,@
       << <<55, 34, 97, 32, 43, 34, 64>> >>,                  \* 7"a +"@
       << <<53, 34, 34, 64>> >>,                              \* 5""@
       << <<48, 48, 47, 48, 48, 47, 103, 46, 64>>,
          << >>, <<118>> >>,                                  \* "00/00/g.@" / "" / "v"
       << <<48, 48, 47, 95, 64>> >>,                          \* 00/_@
       << <<48, 48, 47, 124>>, <<32, 32, 32, 64>>,
          <<32, 32, 32, 46>> >>,                              \* "00/|" / "   @" / "   ."
       << <<34, 97, 34, 48, 48, 49, 45, 112, 64>> >>,         \* "a"001-p@
       << <<95, 64>> >>,                                      \* _@
       << <<46, 35, 64>> >>,                                  \* .#@
       << <<49, 35>> >>,                                      \* 1#
       << <<118>>, <<35>>, <<64>>, <<46>> >>,                 \* v#@. downwards
       << <<60, 64, 46, 35>> >>,                              \* <@.#
       << <<94>>, <<64>>, <<46>>, <<35>> >>,                  \* ^@.# downwards
       << <<34, 120, 34, 49, 49, 112, 64>>, <<97, 98, 99>> >>,    \* "x"11p@ / abc
       << <<34, 120, 34, 52, 49, 112, 64>>, <<97, 98, 99>> >>     \* "x"41p@ / abc
    >>

\* token matrices handed to Program::new with the reading instructions
ReadPrograms ==
    LET R == Tok("ReadInt")
    IN  { << <<R, R, Tok(op), Tok("PrintInt"), Tok("Quit")>> >> :
              op \in {"Add", "Subtract", "Multiply", "Divide", "Modulo", "Greater"} }
        \cup { << <<R, Tok("PrintChar"), Tok("Quit")>> >>,
               << <<Tok("ReadChar"), TInt(1), TInt(0), Tok("Put"),
                    TInt(1), TInt(0), Tok("Get"), Tok("PrintInt"), Tok("Quit")>> >> }

Programs ==
    { lines_to_token_matrix(Texts[i]) : i \in 1..Len(Texts) } \cup ReadPrograms

\* the largest row length of a token matrix (0 for no rows)
max_width(parsed_contents) ==
    IF parsed_contents = << >> THEN 0
    ELSE LET lens == { Len(parsed_contents[i]) : i \in 1..Len(parsed_contents) }
         IN  CHOOSE m \in lens : \A n \in lens : n <= m

NoStep ==
    [token |-> None, string_mode |-> FALSE, xptr |-> 0, yptr |-> 0,
     direction |-> "Right", stack |-> << >>, grid |-> << >>, width |-> 0,
     reads |-> 0, input |-> 0]

NoPut == [done |-> FALSE, x |-> 0, y |-> 0, v |-> 0]

\* no string mode yet; otherwise the stack the opening StringMode found and
\* the tokens stepped over in string mode since
NoString == [state |-> "none", base |-> << >>, cells |-> << >>]

\* the n-th value a sequence of stack_pop calls returns from stack s (n = 1 first)
Popped(s, n) == IF Len(s) >= n THEN s[Len(s) - n + 1] ELSE 0

\* the record of the Program's fields
Self ==
    [xptr |-> xptr, yptr |-> yptr, direction |-> direction, grid |-> grid,
     stack |-> stack, is_running |-> is_running, string_mode |-> string_mode,
     width |-> width, last_output |-> last_output, fatal |-> fatal,
     overflow_checks |-> overflow_checks, ret |-> 0, reads |-> 0, input |-> 0]

\* Program::new on a parsed program
Init ==
    /\ grid \in Programs
    /\ overflow_checks \in BOOLEAN
    /\ xptr = 0
    /\ yptr = 0
    /\ direction = "Right"
    /\ stack = << >>
    /\ is_running = TRUE
    /\ string_mode = FALSE
    /\ width = max_width(grid)
    /\ last_output = << >>
    /\ fatal = ""
    /\ steps = 0
    /\ prev = NoStep
    /\ last_put = NoPut
    /\ prev2 = NoStep
    /\ string_run = NoString
    /\ buffered_line = << >>
    /\ buffered_index = 0
    /\ stdin = << >>
    /\ typed = << >>
    /\ returned = << >>

\* the body of run_program's loop: one call of step() by a live process
CallStep ==
    /\ fatal = ""
    /\ steps < MaxSteps
    /\ \E p \in { step(Self, input, random) : input \in Inputs, random \in Directions } :
          LET t == get_token(Self, xptr, yptr)
          IN  /\ xptr' = p.xptr
              /\ yptr' = p.yptr
              /\ direction' = p.direction
              /\ grid' = p.grid
              /\ stack' = p.stack
              /\ is_running' = p.is_running
              /\ string_mode' = p.string_mode
              /\ width' = p.width
              /\ last_output' = p.last_output
              /\ fatal' = p.fatal
              /\ prev' = [token |-> t, string_mode |-> string_mode,
                          xptr |-> xptr, yptr |-> yptr, direction |-> direction,
                          stack |-> stack, grid |-> grid, width |-> width,
                          reads |-> p.reads, input |-> p.input]
              /\ last_put' = IF t.k = "Put" /\ ~string_mode /\ p.fatal = ""
                             THEN [done |-> TRUE, x |-> Popped(stack, 2),
                                   y |-> Popped(stack, 1), v |-> Popped(stack, 3)]
                             ELSE last_put
              /\ string_run' =
                    CASE p.fatal # "" -> string_run
                      [] ~string_mode /\ t.k = "StringMode" ->
                            [state |-> "open", base |-> stack, cells |-> << >>]
                      [] string_mode /\ t.k = "StringMode" ->
                            [string_run EXCEPT !.state = "closed"]
                      [] string_mode ->
                            [string_run EXCEPT !.cells = Append(@, t)]
                      [] OTHER -> string_run
    /\ prev2' = prev
    /\ steps' = steps + 1
    /\ UNCHANGED overflow_checks
    /\ UNCHANGED reader_vars

\* a call that would go on after Quit
StepHalted == CallStep

\* one iteration of run_program: `while program.is_running { step }`
Step ==
    /\ is_running
    /\ CallStep

Next == Step

Spec == Init /\ [][Next]_vars

-----------------------------------------------------------------------------
(* StdinInputReader on its own: read_char called over and over on a stdin  *)
(* of a few lines, the Program standing still.                             *)

\* read_char is followed for at most MaxReads calls
MaxReads == 5

\* stdin holds at most MaxLines lines
MaxLines == 2

\* what one read_line can meet: a line of text with its newline, or bytes
\* that are no UTF-8, which make it return Err
Lines ==
    { [ok |-> TRUE, text |-> t] :
          t \in { <<97, 10>>, <<98, 99, 10>>, <<10>>, <<233, 10>> } }
    \cup { [ok |-> FALSE, text |-> << >>] }

\* the contents of stdin: up to MaxLines lines
StdinContents == UNION { [1..n -> Lines] : n \in 0..MaxLines }

\* the number of bytes of the UTF-8 encoding of a character
len_utf8(c) ==
    CASE c < 128   -> 1
      [] c < 2048  -> 2
      [] c < 65536 -> 3
      [] OTHER     -> 4

\* String::len: the length in bytes
RECURSIVE string_len(_)
string_len(str) ==
    IF str = << >> THEN 0 ELSE len_utf8(Head(str)) + string_len(Tail(str))

\* the StdinInputReader as a record
Reader == [buffered_line |-> buffered_line, buffered_index |-> buffered_index,
           stdin |-> stdin]

\* StdinInputReader::_read_buffered_line_if_empty; read_line appends the
\* line to the String it is given and adds nothing at the end of input
read_buffered_line_if_empty(r) ==
    IF r.buffered_index >= string_len(r.buffered_line)
    THEN LET r0 == [r EXCEPT !.buffered_index = 0]
         IN  CASE r.stdin = << >> -> r0
               [] Head(r.stdin).ok ->
                     [r0 EXCEPT !.buffered_line = @ \o Head(r.stdin).text,
                                !.stdin = Tail(@)]
               [] OTHER ->
                     [r0 EXCEPT !.buffered_line = << >>, !.stdin = Tail(@)]
    ELSE r

\* StdinInputReader::read_char: the reader afterwards and the value returned
StdinInputReader_read_char(r) ==
    LET r1 == read_buffered_line_if_empty(r)
        \* self.buffered_line.chars().nth(self.buffered_index)
        maybe_char == IF r1.buffered_index < Len(r1.buffered_line)
                      THEN r1.buffered_line[r1.buffered_index + 1]
                      ELSE -1
    IN  [reader |-> [r1 EXCEPT !.buffered_index = @ + 1],
         ret    |-> IF maybe_char = -1 THEN 0 ELSE maybe_char]

\* StdinInputReader::new in front of some stdin, beside a Program of no rows
ReaderInit ==
    /\ grid = << >>
    /\ overflow_checks = FALSE
    /\ xptr = 0
    /\ yptr = 0
    /\ direction = "Right"
    /\ stack = << >>
    /\ is_running = TRUE
    /\ string_mode = FALSE
    /\ width = 0
    /\ last_output = << >>
    /\ fatal = ""
    /\ steps = 0
    /\ prev = NoStep
    /\ last_put = NoPut
    /\ prev2 = NoStep
    /\ string_run = NoString
    /\ buffered_line = << >>
    /\ buffered_index = 0
    /\ stdin \in StdinContents
    /\ typed = stdin
    /\ returned = << >>

\* one call of read_char
ReadChar ==
    /\ Len(returned) < MaxReads
    /\ LET c == StdinInputReader_read_char(Reader)
       IN  /\ buffered_line' = c.reader.buffered_line
           /\ buffered_index' = c.reader.buffered_index
           /\ stdin' = c.reader.stdin
           /\ returned' = Append(returned, c.ret)
    /\ UNCHANGED <<xptr, yptr, direction, grid, stack, is_running, string_mode,
                   width, last_output, fatal, overflow_checks, steps, prev,
                   last_put, prev2, string_run, typed>>

ReaderNext == ReadChar

ReaderSpec == ReaderInit /\ [][ReaderNext]_vars

-----------------------------------------------------------------------------
(* Vocabulary of the properties.  prev is the state the last step started  *)
(* from, so a state predicate can relate a step's start to its end.        *)

\* a step has run / has run to its end without a panic
Stepped   == steps > 0
Completed == steps > 0 /\ fatal = ""

\* the last step read a token at the pointer
ReadToken == steps > 0 /\ prev.token # None

\* the last step dispatched instruction k through perform_action
Dispatched(k) == steps > 0 /\ ~prev.string_mode /\ prev.token.k = k

\* the operands the last step popped, and what n pops left of its stack
First  == Popped(prev.stack, 1)
Second == Popped(prev.stack, 2)
Third  == Popped(prev.stack, 3)
Rest(n) ==
    SubSeq(prev.stack, 1, IF Len(prev.stack) > n THEN Len(prev.stack) - n ELSE 0)

\* length of row y (zero-based) of grid g
RowLen(g, y) == Len(g[y + 1])

\* one cell from (x, y) in direction d on the torus of grid g
TorusAdvance(x, y, d, g) ==
    CASE d = "Right" -> <<(x + 1) % RowLen(g, y), y>>
      [] d = "Left"  -> <<(x - 1 + RowLen(g, y)) % RowLen(g, y), y>>
      [] d = "Down"  -> <<x, (y + 1) % Len(g)>>
      [] d = "Up"    -> <<x, (y - 1 + Len(g)) % Len(g)>>

-----------------------------------------------------------------------------
(* C1 .. C10 *)

\* C1: every step on a Running interpreter that finds a token at the pointer
\* terminates normally and applies its instruction completely: no step ends in
\* a panic, be it before or after it has popped values or changed state.
C1_StepTotal == ReadToken => fatal = ""

\* C2: running goes from true to false only in a step that dispatches Quit,
\* every other step leaves running true, and a false running never becomes
\* true again.
C2_HaltOnlyByQuit ==
    [][ LET quit == ~string_mode /\ get_token(Self, xptr, yptr).k = "Quit"
        IN  /\ (is_running /\ ~is_running') => quit
            /\ (is_running /\ ~quit) => is_running'
            /\ ~is_running => ~is_running' ]_vars

\* C2 witness: a step dispatched Quit and the interpreter is halted
C2_Witness == Dispatched("Quit") /\ ~is_running

\* C3: a completed step leaves the pointer one cell further in the (new)
\* direction on the torus: x modulo the length of the current row, y modulo the
\* height, the other coordinate unchanged; a Bridge step advances twice.  (The
\* modulus of a horizontal move must be positive for the claim to say anything.)
C3_PointerAdvance ==
    (Completed /\ (direction \in {"Left", "Right"} => RowLen(grid, prev.yptr) > 0)) =>
        LET once == TorusAdvance(prev.xptr, prev.yptr, direction, grid)
        IN  <<xptr, yptr>> = IF Dispatched("Bridge")
                             THEN TorusAdvance(once[1], once[2], direction, grid)
                             ELSE once

\* C3 witness: a vertical move has carried the pointer, x unchanged, past the
\* end of a shorter row
C3_Witness ==
    /\ Completed
    /\ direction \in {"Up", "Down"}
    /\ yptr # prev.yptr
    /\ xptr < RowLen(grid, prev.yptr)
    /\ xptr >= RowLen(grid, yptr)

\* C4: from the last column of a row Right lands on column 0, from column 0 Left
\* lands on the last column of that row, from the last row Down lands on row 0
\* and from row 0 Up lands on the last row; the other coordinate is unchanged.
C4_EdgeWrap ==
    (Completed /\ ~Dispatched("Bridge")) =>
        LET w == RowLen(grid, prev.yptr)
            h == Len(grid)
        IN  /\ (direction = "Right" /\ prev.xptr = w - 1) => (xptr = 0 /\ yptr = prev.yptr)
            /\ (direction = "Left" /\ prev.xptr = 0) => (xptr = w - 1 /\ yptr = prev.yptr)
            /\ (direction = "Down" /\ prev.yptr = h - 1) => (yptr = 0 /\ xptr = prev.xptr)
            /\ (direction = "Up" /\ prev.yptr = 0) => (yptr = h - 1 /\ xptr = prev.xptr)

\* C4 witness: the pointer has just left the last row of a grid of several rows
\* downwards
C4_Witness ==
    /\ Completed
    /\ ~Dispatched("Bridge")
    /\ direction = "Down"
    /\ Len(grid) > 1
    /\ prev.yptr = Len(grid) - 1
    /\ yptr = 0

\* C5: the width is the largest row length and every coordinate below the width
\* reads as the stored token, or as the Noop padding past the end of its row.
C5_WidthIsMaxRowLength ==
    /\ width = max_width(grid)
    /\ \A y \in 0..(Len(grid) - 1) : \A x \in 0..(width - 1) :
          get_token(Self, x, y) =
              IF x < RowLen(grid, y) THEN grid[y + 1][x + 1] ELSE Tok("Noop")

\* C6: a Get at the coordinates of the last Put pushes the code of the character
\* that Put wrote.
C6_PutThenGet ==
    (Completed /\ Dispatched("Get") /\ last_put.done
       /\ Second = last_put.x /\ First = last_put.y) =>
        stack = Append(Rest(2), last_put.v)

\* C7: after a Put the cell holds the token of the character written, and a
\* step started at that cell with string mode off dispatches that token.
C7_PutIsExecuted ==
    [][ /\ (last_put'.done /\ last_put' # last_put) =>
              grid'[last_put'.y + 1][last_put'.x + 1] = char_to_token(last_put'.v)
        /\ (last_put.done /\ xptr = last_put.x /\ yptr = last_put.y /\ ~string_mode) =>
              prev'.token = char_to_token(last_put.v) ]_vars

\* the quotient q and remainder r of b by a, truncated toward zero
IsTruncDivision(b, a, q, r) ==
    /\ b = q * a + r
    /\ IF a = I32_MIN THEN r # I32_MIN ELSE Abs(r) < Abs(a)
    /\ (r = 0) \/ ((r < 0) = (b < 0))

\* C8: a binary operator pops two values and pushes one, computed with the
\* second-popped value on the left (in i32 arithmetic); "1 2-." emits "-1 ".
C8_BinaryOperandOrder ==
    /\ (Completed /\ Dispatched("Subtract")) =>
          stack = Append(Rest(2), IF sub_overflows(Second, First)
                                  THEN wrapping_sub(Second, First)
                                  ELSE Second - First)
    /\ (Completed /\ Dispatched("Divide") /\ First # 0) =>
          /\ Len(stack) = Len(Rest(2)) + 1
          /\ SubSeq(stack, 1, Len(stack) - 1) = Rest(2)
          /\ \E r \in {trunc_rem(Second, First)} :
                IsTruncDivision(Second, First, stack[Len(stack)], r)
    /\ (Completed /\ Dispatched("Modulo")) =>
          /\ Len(stack) = Len(Rest(2)) + 1
          /\ SubSeq(stack, 1, Len(stack) - 1) = Rest(2)
          /\ \E q \in {trunc_div(Second, First)} :
                IsTruncDivision(Second, First, q, stack[Len(stack)])
    /\ (Completed /\ Dispatched("Add")) =>
          stack = Append(Rest(2), IF add_overflows(Second, First)
                                  THEN wrapping_add(Second, First)
                                  ELSE Second + First)
    /\ (Completed /\ Dispatched("Multiply")) =>
          stack = Append(Rest(2), IF mul_overflows(Second, First)
                                  THEN wrapping_mul(Second, First)
                                  ELSE Second * First)
    /\ (grid = lines_to_token_matrix(Texts[2]) /\ Stepped) =>
          /\ fatal = ""
          /\ last_output = IF Dispatched("PrintInt") THEN <<45, 49, 32>> ELSE << >>
          /\ ~is_running => (steps = 6 /\ prev.token.k = "Quit")

\* C8 witness: Subtract has turned the stack 3, -7 (top) into 10
C8_Witness ==
    /\ Completed
    /\ Dispatched("Subtract")
    /\ prev.stack = <<3, -7>>
    /\ stack = <<10>>

\* C9: Divide with a first-popped 0 does not panic: it pops both operands, asks
\* the input reader once, pushes what the reader returned, stays running and
\* advances the pointer like any other instruction.
C9_DivideByZeroReadsInput ==
    (Dispatched("Divide") /\ First = 0) =>
        /\ fatal = ""
        /\ prev.reads = 1
        /\ stack = Append(Rest(2), prev.input)
        /\ is_running
        /\ <<xptr, yptr>> = TorusAdvance(prev.xptr, prev.yptr, direction, grid)
        /\ direction = prev.direction

\* C9 witness: a division of 3 by 0 has pushed the 65 the reader returned
C9_Witness ==
    /\ Dispatched("Divide")
    /\ prev.stack = <<3, 0>>
    /\ prev.input = 65
    /\ stack = <<65>>

\* C10: a pop on the empty stack yields 0, leaves the stack empty and the
\* interpreter running; a pushed value is the value the next pop returns;
\* PrintInt on the empty stack emits "0 " and does not halt.
C10_UnderflowIsZero ==
    /\ (Dispatched("PrintInt") /\ prev.stack = << >>) =>
          (last_output = <<48, 32>> /\ stack = << >> /\ is_running /\ fatal = "")
    /\ (Dispatched("Discard") /\ prev.stack = << >>) =>
          (stack = << >> /\ is_running /\ fatal = "")
    /\ (Dispatched("HorizontalIf") /\ prev.stack = << >>) =>
          (direction = "Right" /\ stack = << >> /\ is_running /\ fatal = "")
    /\ Dispatched("Int") => stack = Append(prev.stack, prev.token.v)
    /\ Dispatched("ReadInt") => stack = Append(prev.stack, prev.input)
    /\ (Dispatched("PrintInt") /\ prev.stack # << >>) =>
          /\ last_output = format_i32(prev.stack[Len(prev.stack)]) \o <<32>>
          /\ stack = Rest(1)

\* C10 witness: PrintInt has run on the empty stack and emitted "0 "
C10_Witness ==
    /\ Dispatched("PrintInt")
    /\ prev.stack = << >>
    /\ last_output = <<48, 32>>
    /\ is_running

\* a stack with zeroes put under it until it holds two values
ZeroFilled(s) ==
    CASE Len(s) >= 2 -> s
      [] Len(s) = 1  -> <<0>> \o s
      [] OTHER       -> <<0, 0>>

\* the step before the last dispatched instruction k through perform_action
DispatchedBefore(k) == steps > 1 /\ ~prev2.string_mode /\ prev2.token.k = k

\* C11: two Swap steps in succession give back the stack the first one
\* started from, with zeroes filled in below when it held fewer than two
\* values.
C11_SwapTwice ==
    (Completed /\ Dispatched("Swap") /\ DispatchedBefore("Swap")) =>
        stack = ZeroFilled(prev2.stack)

\* two Swaps have run on a stack of one value
C11_Witness ==
    /\ Completed
    /\ Dispatched("Swap")
    /\ DispatchedBefore("Swap")
    /\ prev2.stack = <<1>>
    /\ prev.stack = <<1, 0>>
    /\ stack = <<0, 1>>

\* the character a token is drawn as in the program text: the one that
\* char_to_token reads as this token
DrawnAs(t) ==
    IF t.k = "Char" THEN t.v ELSE CHOOSE c \in 0..127 : char_to_token(c) = t

\* the last step ran in string mode over the token with name k
StringStepOver(k) == steps > 0 /\ prev.string_mode /\ prev.token.k = k

\* C12: in string mode a step over a token other than StringMode executes
\* nothing: it pushes the one character code the token is drawn as (64 for
\* Quit, 48 + n for the digit n) and leaves direction, grid, is_running and
\* string_mode alone; a step over StringMode flips string_mode and pushes
\* nothing.
C12_StringModeStep ==
    /\ (Stepped /\ prev.string_mode /\ prev.token # None
            /\ prev.token.k # "StringMode") =>
          /\ fatal = ""
          /\ stack = Append(prev.stack, DrawnAs(prev.token))
          /\ prev.token.k = "Quit" => stack[Len(stack)] = 64
          /\ prev.token.k = "Int" => stack[Len(stack)] = 48 + prev.token.v
          /\ direction = prev.direction
          /\ grid = prev.grid
          /\ width = prev.width
          /\ is_running
          /\ string_mode
    /\ StringStepOver("StringMode") =>
          fatal = "" /\ ~string_mode /\ stack = prev.stack /\ grid = prev.grid
    /\ Dispatched("StringMode") =>
          fatal = "" /\ string_mode /\ stack = prev.stack /\ grid = prev.grid

\* string mode has stepped over a Quit and a digit, pushing 49 and 64
C12_Witness ==
    /\ StringStepOver("Quit")
    /\ prev2.string_mode
    /\ prev2.token = TInt(1)
    /\ stack = <<49, 64>>
    /\ is_running
    /\ string_mode

\* the character codes a sequence of tokens is drawn as
Codes(ts) == [i \in 1..Len(ts) |-> DrawnAs(ts[i])]

\* C13: when the closing StringMode is stepped over, the stack is the stack
\* the opening StringMode found with the character codes of the n cells in
\* between on top of it, in the order they were stepped over; popping then
\* gives them back last first ("1@",,@ prints @ and then 1).
C13_StringRoundTrip ==
    /\ StringStepOver("StringMode") =>
          /\ string_run.state = "closed"
          /\ stack = string_run.base \o Codes(string_run.cells)
          /\ Len(stack) = Len(string_run.base) + Len(string_run.cells)
    /\ (grid = lines_to_token_matrix(Texts[22]) /\ steps = 5) => last_output = <<64>>
    /\ (grid = lines_to_token_matrix(Texts[22]) /\ steps = 6) => last_output = <<49>>

\* 7"a +" has been stepped over: three codes lie on top of the 7
C13_Witness ==
    /\ StringStepOver("StringMode")
    /\ string_run.base = <<7>>
    /\ Len(string_run.cells) = 3
    /\ stack = <<7, 97, 32, 43>>

\* what Get is to push for (x, y) on grid g of width w: the code of the
\* cell's character, 32 where the row is shorter than the width, 0 outside
GetValue(g, w, x, y) ==
    CASE x < 0 \/ y < 0 \/ x >= w \/ y >= Len(g) -> 0
      [] x >= RowLen(g, y)                       -> 32
      [] OTHER                                   -> DrawnAs(g[y + 1][x + 1])

\* C14: Get pops y, then x, and pushes one value: the character code of the
\* token at (x, y) inside the grid (32 for a padded position), 0 outside
\* (negative, x >= width or y >= height); it never fails and leaves the grid
\* as it was.
C14_Get ==
    Dispatched("Get") =>
        /\ fatal = ""
        /\ stack = Append(Rest(2), GetValue(prev.grid, prev.width, Second, First))
        /\ grid = prev.grid
        /\ width = prev.width

\* Get has read the padded position (2, 2) of "00/00/g.@" / "" / "v"
C14_Witness ==
    /\ Dispatched("Get")
    /\ Second = 2
    /\ First = 2
    /\ RowLen(prev.grid, 2) = 1
    /\ prev.width = 9
    /\ stack = <<32>>
    /\ fatal = ""

\* no step makes the width, the height or a row shorter
GridNeverShrinks ==
    Stepped =>
        /\ width >= prev.width
        /\ Len(grid) >= Len(prev.grid)
        /\ \A i \in 1..Len(prev.grid) : Len(grid[i]) >= Len(prev.grid[i])

\* C15: the grid never shrinks, and a Put past the bounds grows it so that
\* the written coordinate lies inside the new bounds.
C15_PutGrowsGrid ==
    /\ GridNeverShrinks
    /\ (Completed /\ Dispatched("Put")) =>
          /\ 0 <= Second /\ Second < width
          /\ 0 <= First /\ First < Len(grid)

\* the run is the one of the one-row program 55+.
Runs55 == grid = lines_to_token_matrix(Texts[1])

\* C16 as stated: running 55+. from (0, 0) heading Right, the first three
\* steps emit nothing, the fourth emits exactly "10 ", and the interpreter
\* then halts as the pointer leaves the row.
C16_HaltsAfterOutput ==
    Runs55 =>
        /\ steps \in 1..3 => last_output = << >>
        /\ steps = 4 => last_output = <<49, 48, 32>> /\ ~is_running
        /\ steps <= 4

\* C16 amended: running 55+. from (0, 0) heading Right, the first three
\* steps emit nothing and the fourth emits exactly "10 "; the interpreter
\* does not halt: the pointer wraps to column 0 and the program repeats,
\* emitting "10 " on every fourth step.
C16_RepeatsAfterOutput ==
    Runs55 =>
        /\ is_running
        /\ fatal = ""
        /\ xptr = steps % 4
        /\ yptr = 0
        /\ direction = "Right"
        /\ steps % 4 \in 1..3 => last_output = << >>
        /\ (steps > 0 /\ steps % 4 = 0) =>
              last_output = <<49, 48, 32>> /\ stack = << >>

\* 55+. has gone round the row twice and has just printed "10 " again
C16_Witness ==
    /\ Runs55
    /\ steps = 8
    /\ Dispatched("PrintInt")
    /\ last_output = <<49, 48, 32>>
    /\ xptr = 0
    /\ is_running

\* C17: the run loop never calls step on a halted interpreter: every step
\* starts from a running state, and a step that ends halted is the step
\* that executed Quit, so the state reached at halting is final.
C17_NoStepAfterHalt ==
    [][is_running /\ (~is_running' => Dispatched("Quit")')]_vars

\* halted by Quit with steps of the budget left
C17_Witness ==
    /\ ~is_running
    /\ fatal = ""
    /\ Dispatched("Quit")
    /\ steps < MaxSteps
    /\ ~ENABLED Step

\* minus the number a string of decimal digits stands for
RECURSIVE NegValue(_)
NegValue(d) ==
    IF d = << >> THEN 0
    ELSE NegValue(SubSeq(d, 1, Len(d) - 1)) * 10 - (d[Len(d)] - 48)

\* s is the decimal text of the i32 n: an optional minus sign, then digits
\* without a leading zero
IsDecimalOf(s, n) ==
    LET neg == s # << >> /\ s[1] = 45
        d   == IF neg THEN Tail(s) ELSE s
    IN  /\ d # << >>
        /\ Len(d) <= 10
        /\ \A i \in 1..Len(d) : d[i] \in 48..57
        /\ Len(d) > 1 => d[1] # 48
        /\ neg <=> n < 0
        /\ NegValue(d) = IF n < 0 THEN n ELSE -n

\* C18: after every step last_output is the text of that step alone: the
\* decimal number and one space for PrintInt, the one character for
\* PrintChar, nothing for any other instruction and for a string-mode step;
\* no earlier output is kept.
C18_LastOutputOfStepOnly ==
    Stepped =>
        CASE fatal = "" /\ Dispatched("PrintInt") ->
                /\ Len(last_output) >= 2
                /\ last_output[Len(last_output)] = 32
                /\ IsDecimalOf(SubSeq(last_output, 1, Len(last_output) - 1), First)
          [] fatal = "" /\ Dispatched("PrintChar") ->
                last_output = <<First>>
          [] OTHER ->
                last_output = << >>

\* "1@",,@ has printed @ and 1 and then stepped over Quit, which emits nothing
C18_Witness ==
    /\ DispatchedBefore("PrintChar")
    /\ Popped(prev2.stack, 1) = 49
    /\ Dispatched("Quit")
    /\ last_output = << >>

\* C19: HorizontalIf pops one value and heads Right if it is 0, Left
\* otherwise; VerticalIf pops one value and heads Down if it is 0, Up
\* otherwise; an empty stack counts as 0; the pointer advance of the same
\* step already goes in the new direction.
C19_Conditionals ==
    /\ Dispatched("HorizontalIf") =>
          /\ fatal = ""
          /\ direction = IF First = 0 THEN "Right" ELSE "Left"
          /\ stack = Rest(1)
          /\ <<xptr, yptr>> = TorusAdvance(prev.xptr, prev.yptr, direction, grid)
    /\ Dispatched("VerticalIf") =>
          /\ fatal = ""
          /\ direction = IF First = 0 THEN "Down" ELSE "Up"
          /\ stack = Rest(1)
          /\ <<xptr, yptr>> = TorusAdvance(prev.xptr, prev.yptr, direction, grid)

\* 00/_@ has read a 3 and left the HorizontalIf leftwards, against the
\* direction it arrived in
C19_Witness ==
    /\ Dispatched("HorizontalIf")
    /\ prev.stack = <<3>>
    /\ prev.direction = "Right"
    /\ direction = "Left"
    /\ stack = << >>
    /\ xptr = prev.xptr - 1

\* v is the code of a character: a Unicode scalar value
IsScalarValue(v) == (0 <= v /\ v < 55296) \/ (57343 < v /\ v <= 1114111)

\* the last step was a Put to a negative coordinate or of no character, or a
\* PrintChar of no character
FatalCase ==
    \/ Dispatched("Put") /\ (Second < 0 \/ First < 0 \/ ~IsScalarValue(Third))
    \/ Dispatched("PrintChar") /\ ~IsScalarValue(First)

\* such a step ended the process with the grid as it was and no output
FatalOutcome ==
    FatalCase =>
        /\ fatal # ""
        /\ grid = prev.grid
        /\ width = prev.width
        /\ last_output = << >>

\* C20: a Put with negative x or y, and a Put or PrintChar of an invalid
\* character code, end in a fatal error: the grid is not modified, the step
\* emits nothing, and no later step runs.
C20_FatalStops ==
    [][fatal = "" /\ FatalOutcome']_vars

\* a Put of a valid character to a negative y has ended the process
C20_Witness ==
    /\ Dispatched("Put")
    /\ First < 0
    /\ Second >= 0
    /\ IsScalarValue(Third)
    /\ fatal # ""
    /\ grid = prev.grid
    /\ ~ENABLED Step

\* the program has a cell at (0, 0); rows are never removed or shortened
HasOrigin == Len(grid) > 0 /\ Len(grid[1]) > 0

\* C21: in every reachable state of a program whose cell (0, 0) exists the
\* pointer satisfies 0 <= x < width and 0 <= y < height, so the token read
\* at the start of a step is always found.
C21_PointerInBounds ==
    HasOrigin =>
        /\ 0 <= xptr /\ xptr < width
        /\ 0 <= yptr /\ yptr < Len(grid)
        /\ get_token(Self, xptr, yptr) # None

\* two cells from the place the last step started at, in the direction it
\* started with, wrapping at each of the two advances
TwoAhead ==
    LET a == TorusAdvance(prev.xptr, prev.yptr, prev.direction, prev.grid)
    IN  TorusAdvance(a[1], a[2], prev.direction, prev.grid)

\* C22: a step that executes Bridge advances the pointer two cells in the
\* current direction, wrapping at each advance, so the token one cell ahead
\* is skipped; stack, direction, grid and running flag stay as they were.
C22_Bridge ==
    Dispatched("Bridge") =>
        /\ fatal = ""
        /\ <<xptr, yptr>> = TwoAhead
        /\ stack = prev.stack
        /\ direction = prev.direction
        /\ grid = prev.grid
        /\ width = prev.width
        /\ is_running
        /\ ~string_mode
        /\ last_output = << >>

\* the Bridge of .#@ has skipped the Quit at the end of the row and wrapped
C22_Witness ==
    /\ Dispatched("Bridge")
    /\ prev.direction = "Right"
    /\ prev.xptr = 1
    /\ RowLen(prev.grid, 0) = 3
    /\ prev.grid[1][3] = Tok("Quit")
    /\ xptr = 0
    /\ is_running

\* what the cell (a, b) of grid g holds, b being one of its rows: the stored
\* token, Noop where the row is shorter
CellAt(g, a, b) == IF a < RowLen(g, b) THEN g[b + 1][a + 1] ELSE Tok("Noop")

\* C23: Put is the only mutator of the grid: a step that dispatches another
\* instruction, or runs in string mode, leaves every cell, the width and the
\* height as they were; a Put at (x, y) changes no cell that was in bounds
\* before other than (x, y).
C23_OnlyPutWrites ==
    Stepped =>
        /\ ~Dispatched("Put") => grid = prev.grid /\ width = prev.width
        /\ Dispatched("Put") =>
              \A b \in 0..(Len(prev.grid) - 1) : \A a \in 0..(prev.width - 1) :
                  (a # Second \/ b # First) =>
                      /\ b < Len(grid)
                      /\ a < width
                      /\ CellAt(grid, a, b) = CellAt(prev.grid, a, b)

\* the Put of "x"11p@ / abc has turned the row abc into axc
C23_Witness ==
    /\ Dispatched("Put")
    /\ fatal = ""
    /\ Second = 1
    /\ First = 1
    /\ prev.grid[2] = <<TChar(97), TChar(98), TChar(99)>>
    /\ grid[2] = <<TChar(97), TChar(120), TChar(99)>>
    /\ grid[1] = prev.grid[1]

\* C24: the input reader is asked at most once in a step, and only by
\* ReadInt, ReadChar or a Divide whose first popped value is 0; ReadInt and
\* ReadChar pop nothing and push exactly the value returned; no other
\* instruction and no string-mode step consumes input.
C24_InputOncePerStep ==
    Stepped =>
        /\ prev.reads <= 1
        /\ prev.reads = 1 =>
              \/ Dispatched("ReadInt")
              \/ Dispatched("ReadChar")
              \/ Dispatched("Divide") /\ First = 0
        /\ (Dispatched("ReadInt") \/ Dispatched("ReadChar")) =>
              /\ fatal = ""
              /\ prev.reads = 1
              /\ stack = Append(prev.stack, prev.input)

\* a second ReadInt has pushed the -7 it was given on top of the first value
C24_Witness ==
    /\ Dispatched("ReadInt")
    /\ DispatchedBefore("ReadInt")
    /\ prev.reads = 1
    /\ prev.input = -7
    /\ Len(prev.stack) = 1
    /\ stack = Append(prev.stack, -7)

\* the characters of a sequence of lines, one after the other
RECURSIVE Flat(_)
Flat(ls) == IF ls = << >> THEN << >> ELSE Head(ls).text \o Flat(Tail(ls))

\* every line of the input was text
AllText == \A i \in 1..Len(typed) : typed[i].ok

\* C25: over any sequence of read_char calls StdinInputReader returns the
\* characters of the input lines in order, each exactly once: after the
\* last character of a line comes the first of the next line, and no
\* character of a consumed line comes again.
C25_ReadCharInOrder ==
    AllText =>
        \A i \in 1..Len(returned) :
            i <= Len(Flat(typed)) => returned[i] = Flat(typed)[i]

=============================================================================
